---------------------------- MODULE Spec2Model ----------------------------
(***************************************************************************)
(* Appointment booking workflow of the DocCare client.                     *)
(*                                                                         *)
(* The store is the remote document database (collections timeSlots and   *)
(* appointments).  Each browser session holds the React state of its page *)
(* (the list it last loaded or was pushed, the call in flight).  The       *)
(* booking handler makes two writes and is split between them; a handler  *)
(* that makes one write is one action together with its continuation.     *)
(***************************************************************************)
EXTENDS Integers, Sequences, FiniteSets, TLC

(* ------------------------------ bounds -------------------------------- *)
\* documents ever added to the store (time slots and appointments together)
MaxDocs == 3
\* calls one page of a session has in flight at a time
MaxCalls == 2

(* ------------------------------ universe ------------------------------ *)
\* registered doctors that have a browser session
Doctors == {"d1"}
\* registered patients that have a browser session
Patients == {"p1", "p2"}
\* accounts created by the sample-data initialisation (no session here)
SampleDoctors == {"sd"}
SamplePatients == {"sp"}
\* calendar dates as day offsets from the current date
Dates == 0 .. 1
tomorrow == 0 + 1
\* times of day, by hour ("09:00", "10:00")
Times == {9, 10}
sampleAppointmentTime == 10 + 0
\* the (date, time) pairs the forms and the sample data draw from
DateTimes == (Dates \X Times) \ {<<0, 9>>}
\* Appointment['status']
Statuses == {"pending", "confirmed", "declined", "completed"}
\* accounts that can sign in: the security rules admit any signed-in account
Users == Doctors \cup Patients
\* values of the specialty field of a doctor's user document
Specialties == {"cardiology", "dermatology"}

NoId == 0
NoSlot == [id |-> NoId, doctorId |-> "", date |-> 0, time |-> 0, isBooked |-> FALSE]
NoNote == "none"
NoDoctors == [d \in {} |-> ""]
\* specialty of the sample doctor, and of a doctor as registered
sampleSpecialty == "cardiology"
NoCall == [op |-> "", caller |-> ""]
NoUser == ""
\* the value null of a lookup that found nothing
null == "null"
NoResult == [op |-> "", failed |-> FALSE, threw |-> FALSE, value |-> <<>>]
\* e-mail addresses typed into the forms; the first is the one of the sample doctor
Emails == {"sarah.johnson@doccare.com", "new@example.com"}
NoDocuments == [uid \in {} |-> ""]
NoOperation == [op |-> "", pc |-> "idle", uid |-> "", email |-> ""]
NoReturn == [op |-> "", ok |-> FALSE, uid |-> "", outcome |-> "", stored |-> FALSE]
NoUserCall == [called |-> FALSE, uid |-> "", email |-> "", saved |-> FALSE,
               threw |-> FALSE, before |-> <<>>]
NoAppointmentCall == [called |-> FALSE, id |-> NoId, updates |-> <<>>, saved |-> FALSE,
                      returnedNull |-> FALSE, value |-> <<>>, turn |-> 0]

VARIABLES
    timeSlots,          \* collection timeSlots: set of slot documents
    appointments,       \* collection appointments: set of appointment documents
    nextSlotId,         \* next document id addDoc gives in timeSlots
    nextApptId,         \* next document id addDoc gives in appointments
    users,              \* collection users: the specialty of each doctor's document
    availableSlots,     \* BookAppointment page: slots loaded on mount, per patient
    doctorsWithSlots,   \* BookAppointment page: the doctors loaded with the slots
    booking,            \* BookAppointment page: the bookAppointment call in flight
    timeSlotsView,      \* ManageAvailability page: timeSlots state shown in a
                        \* session of the doctor (as last pushed to it)
    appointmentsView,   \* DoctorDashboard page: appointments state shown in a
                        \* session of the doctor (as last pushed to it)
    sampleDone,         \* the sample accounts exist (initializeSampleData ran)
    notification,       \* type of the last showNotification call of any page
    bookedOk,           \* history: slot ids whose booking call ended in success
    lastCall,           \* history: the last direct call of a store operation
    tempTimeSlots,      \* localStorage doccare_time_slots: the stored list
    tempAppointments,   \* localStorage doccare_appointments: the stored list
    tempNextId,         \* stands for the fresh part of the next local id
    lastResult,         \* history: how the last call of a store operation ended
    user,               \* useAuth: the user state (an account, or NoUser for null)
    loading,            \* useAuth: the loading state
    currentUser,        \* the account signed in at the auth service (or NoUser)
    location,           \* the router's current path
    shown,              \* what the router rendered last, and the navigation it asked
    patientAppointments, \* PatientDashboard page: appointments state, per patient
    tempUsers,          \* localStorage doccare_users: the stored list
    accounts,           \* the accounts of the auth service
    userDocuments,      \* collection users: the document of each registered account
    error,              \* useAuth: the error state ("" for null)
    call,               \* useAuth: the register or login call in flight
    lookups,            \* accounts whose auth-state callback awaits the user document
    returned,           \* history: how the last register or login call ended
    updating,           \* DoctorDashboard page: the updating state (an id or NoId)
    deleting,           \* ManageAvailability page: the deleting state (an id or NoId)
    pendingUpdates,     \* DoctorDashboard page: the status updates awaited
    pendingDeletes,     \* ManageAvailability page: the slot deletions awaited
    tempUserCall,       \* history: the last direct call of tempCreateUser
    tempAppointmentCall \* history: the last direct call of tempUpdateAppointment

vars == <<timeSlots, appointments, nextSlotId, nextApptId, users, availableSlots,
          doctorsWithSlots, booking, timeSlotsView, appointmentsView, sampleDone,
          notification, bookedOk, lastCall, tempTimeSlots, tempAppointments,
          tempNextId, lastResult, user, loading, currentUser, location, shown,
          patientAppointments, tempUsers, accounts, userDocuments, error, call,
          lookups, returned, updating, deleting, pendingUpdates, pendingDeletes,
          tempUserCall, tempAppointmentCall>>

storeVars == <<timeSlots, appointments, nextSlotId, nextApptId>>
patientVars == <<availableSlots, doctorsWithSlots, booking>>
\* state that only the operations of one part of the program change
tempVars == <<tempTimeSlots, tempAppointments, tempNextId>>
\* the browser-local state, which no operation on the remote store touches
tempHistory == <<tempUserCall, tempAppointmentCall>>
localVars == <<tempVars, tempUsers, tempHistory>>
readVars == <<lastResult>>
\* what the pages and the writes to the remote store leave alone
authVars == <<user, loading, currentUser, location, shown>>
liveVars == <<patientAppointments>>
\* the register and login calls of the hook and what they work on
hookVars == <<accounts, userDocuments, error, call, lookups, returned>>
\* the busy markers of the doctor's pages and the calls they stand for
busyVars == <<updating, deleting, pendingUpdates, pendingDeletes>>
sideVars == <<localVars, readVars, authVars, liveVars, hookVars, busyVars>>
auxVars == <<users, sideVars>>
slotPageVars == <<timeSlotsView>>
dashboardVars == <<appointmentsView>>

(* ------------------------------ helpers ------------------------------- *)
Range(s) == {s[i] : i \in DOMAIN s}

RECURSIVE SetToSeq(_)
SetToSeq(S) ==
    IF S = {} THEN <<>>
    ELSE LET x == CHOOSE y \in S : TRUE IN <<x>> \o SetToSeq(S \ {x})

\* orderBy('date'), orderBy('time'); documents that tie are in document-id order
SlotBefore(a, b) ==
    \/ a.date < b.date
    \/ a.date = b.date /\ a.time < b.time
    \/ a.date = b.date /\ a.time = b.time /\ a.id < b.id

\* orderBy('date', 'desc'); documents that tie are in descending document-id order
AppointmentBefore(a, b) ==
    \/ a.date > b.date
    \/ a.date = b.date /\ a.id > b.id

SameSlotKey(x, y) ==
    x.doctorId = y.doctorId /\ x.date = y.date /\ x.time = y.time

(* ------------------------- store operations --------------------------- *)
\* documents added so far; addDoc of n more documents stays within the bound
DocsAdded == (nextSlotId - 1) + (nextApptId - 1)
CanAdd(n) == DocsAdded + n <= MaxDocs

\* addDoc(collection(db, TIME_SLOTS), {...timeSlotData})
createTimeSlot(slots, id, timeSlotData) ==
    slots \cup {[id |-> id, doctorId |-> timeSlotData.doctorId,
                 date |-> timeSlotData.date, time |-> timeSlotData.time,
                 isBooked |-> timeSlotData.isBooked]}

\* query where doctorId == d and isBooked == false, orderBy date, time
getDoctorTimeSlots(slots, doctorId) ==
    SortSeq(SetToSeq({s \in slots : s.doctorId = doctorId /\ s.isBooked = FALSE}),
            SlotBefore)

\* query where isBooked == false, orderBy date, time
getAvailableTimeSlots(slots) ==
    SortSeq(SetToSeq({s \in slots : s.isBooked = FALSE}), SlotBefore)

\* deleteDoc(doc(db, TIME_SLOTS, slotId)): succeeds whether or not the document exists
deleteTimeSlot(slots, slotId) == {s \in slots : s.id # slotId}

\* updateDoc(slotRef, {isBooked}): the document must exist
CanUpdateTimeSlot(slots, slotId) == \E s \in slots : s.id = slotId

\* a variant of the update that writes nothing
updateTimeSlotBookingStatusNoWrite(slots, slotId, isBooked) == slots

updateTimeSlotBookingStatus(slots, slotId, isBooked) ==
    {IF s.id = slotId THEN [s EXCEPT !.isBooked = isBooked] ELSE s : s \in slots}

\* addDoc(collection(db, APPOINTMENTS), {...appointmentData}); slotId is a
\* history field: the slot the call was made for (NoId when there is none)
createAppointment(appts, id, appointmentData) ==
    appts \cup {[id |-> id, doctorId |-> appointmentData.doctorId,
                 patientId |-> appointmentData.patientId,
                 date |-> appointmentData.date, time |-> appointmentData.time,
                 specialty |-> appointmentData.specialty,
                 status |-> appointmentData.status,
                 slotId |-> appointmentData.slotId]}

\* updateDoc(appointmentRef, {status}): the document must exist
CanUpdateAppointment(appts, appointmentId) == \E a \in appts : a.id = appointmentId

\* a variant of the update that also rewrites a denormalised field
updateAppointmentStatusAndSpecialty(appts, appointmentId, status) ==
    {IF a.id = appointmentId
     THEN [a EXCEPT !.status = status, !.specialty = "General"] ELSE a : a \in appts}

updateAppointmentStatus(appts, appointmentId, status) ==
    {IF a.id = appointmentId THEN [a EXCEPT !.status = status] ELSE a : a \in appts}

\* query where patientId == p, orderBy date desc
getPatientAppointments(appts, patientId) ==
    SortSeq(SetToSeq({a \in appts : a.patientId = patientId}), AppointmentBefore)

\* query where doctorId == d, orderBy date desc
getDoctorAppointments(appts, doctorId) ==
    SortSeq(SetToSeq({a \in appts : a.doctorId = doctorId}), AppointmentBefore)

\* a variant of the listener that delivers nothing
subscribeToPatientAppointmentsNothing(appts, patientId) == <<>>

\* onSnapshot of the query where patientId == p, orderBy date desc
subscribeToPatientAppointments(appts, patientId) ==
    SortSeq(SetToSeq({a \in appts : a.patientId = patientId}), AppointmentBefore)

\* onSnapshot of the query where doctorId == d, orderBy date, time
subscribeToDoctorTimeSlots(slots, doctorId) ==
    SortSeq(SetToSeq({s \in slots : s.doctorId = doctorId}), SlotBefore)

\* onSnapshot of the query where doctorId == d, orderBy date desc
subscribeToDoctorAppointments(appts, doctorId) ==
    SortSeq(SetToSeq({a \in appts : a.doctorId = doctorId}), AppointmentBefore)

\* setDoc(doc(db, USERS, uid), {...userData}): writes the whole document, new or not
createUserDocument(userDocs, userData) ==
    [userDocs EXCEPT ![userData.uid] = userData.specialty]

\* setNotification({show: true, message, type}): the type is kept
showNotification(message, type) == type

(* ------------------------------- Init --------------------------------- *)
Idle == [pc |-> "idle", slot |-> NoSlot, apptId |-> NoId]

Init ==
    /\ timeSlots = {}
    /\ appointments = {}
    /\ nextSlotId = 1
    /\ nextApptId = 1
    /\ users = [d \in Doctors \cup SampleDoctors |-> sampleSpecialty]
    /\ availableSlots = [p \in Patients |-> <<>>]
    /\ doctorsWithSlots = [p \in Patients |-> NoDoctors]
    /\ booking = [p \in Patients |-> Idle]
    /\ timeSlotsView = [d \in Doctors |-> <<>>]
    /\ appointmentsView = [d \in Doctors |-> <<>>]
    /\ sampleDone = FALSE
    /\ notification = NoNote
    /\ bookedOk = {}
    /\ lastCall = NoCall
    /\ tempTimeSlots = <<>>
    /\ tempAppointments = <<>>
    /\ tempNextId = 1
    /\ lastResult = NoResult
    /\ user = NoUser
    /\ loading = TRUE
    /\ currentUser = NoUser
    /\ location = "/"
    /\ shown = [shows |-> "/", navigate |-> ""]
    /\ patientAppointments = [p \in Patients |-> <<>>]
    /\ tempUsers = <<>>
    /\ accounts = {}
    /\ userDocuments = NoDocuments
    /\ error = ""
    /\ call = NoOperation
    /\ lookups = {}
    /\ returned = NoReturn
    /\ updating = [d \in Doctors |-> NoId]
    /\ deleting = [d \in Doctors |-> NoId]
    /\ pendingUpdates = [d \in Doctors |-> <<>>]
    /\ pendingDeletes = [d \in Doctors |-> <<>>]
    /\ tempUserCall = NoUserCall
    /\ tempAppointmentCall = NoAppointmentCall


(* ----------------------- BookAppointment page ------------------------- *)
\* the doctors of the listed slots, each with the user document read for it
doctorMap(slotsWithDoctorInfo, userDocs) ==
    [d \in {slotsWithDoctorInfo[i].doctorId : i \in DOMAIN slotsWithDoctorInfo}
        |-> userDocs[d]]

\* mount of the page: loadAvailableSlots puts the open slots in the page state
loadAvailableSlots(p) ==
    /\ booking[p].pc = "idle"
    /\ \/ availableSlots[p] # getAvailableTimeSlots(timeSlots)
       \/ doctorsWithSlots[p] # doctorMap(getAvailableTimeSlots(timeSlots), users)
    /\ availableSlots' = [availableSlots EXCEPT ![p] = getAvailableTimeSlots(timeSlots)]
    /\ doctorsWithSlots' = [doctorsWithSlots EXCEPT
                               ![p] = doctorMap(getAvailableTimeSlots(timeSlots), users)]
    /\ UNCHANGED <<storeVars, booking, slotPageVars, dashboardVars, sampleDone,
                   notification, bookedOk, lastCall, auxVars>>

\* catch and finally of bookAppointment: the page stays, with the list it loaded
bookFailed(p) ==
    /\ notification' = showNotification("Failed to book appointment. Please try again.", "error")
    /\ booking' = [booking EXCEPT ![p] = Idle]
    /\ UNCHANGED <<availableSlots, doctorsWithSlots, bookedOk>>

\* bookAppointment on a displayed slot (selectDoctor and selectTimeSlot only set
\* the selection the click reads; the button is disabled while booking), up to
\* the second await: createAppointment resolves, the slot update is issued
bookAppointment(p) ==
    \E i \in DOMAIN availableSlots[p] :
        LET selectedTimeSlot == availableSlots[p][i] IN
        /\ booking[p].pc = "idle"
        /\ CanAdd(1)
        /\ appointments' = createAppointment(appointments, nextApptId,
               [doctorId |-> selectedTimeSlot.doctorId, patientId |-> p,
                specialty |-> doctorsWithSlots[p][selectedTimeSlot.doctorId],
                date |-> selectedTimeSlot.date, time |-> selectedTimeSlot.time,
                status |-> "pending", slotId |-> selectedTimeSlot.id])
        /\ nextApptId' = nextApptId + 1
        /\ booking' = [booking EXCEPT ![p] =
               [pc |-> "marking", slot |-> selectedTimeSlot, apptId |-> nextApptId]]
        /\ UNCHANGED <<timeSlots, nextSlotId, availableSlots, doctorsWithSlots,
                       slotPageVars, dashboardVars, sampleDone, notification,
                       bookedOk, lastCall, auxVars>>

\* bookAppointment on a displayed slot when createAppointment rejects
bookCreateFail(p) ==
    /\ availableSlots[p] # <<>>
    /\ booking[p].pc = "idle"
    /\ bookFailed(p)
    /\ UNCHANGED <<storeVars, slotPageVars, dashboardVars, sampleDone, lastCall, auxVars>>

\* updateTimeSlotBookingStatus(id, true) resolves: success notification, navigate away
bookMarkOk(p) ==
    /\ booking[p].pc = "marking"
    /\ CanUpdateTimeSlot(timeSlots, booking[p].slot.id)
    /\ timeSlots' = updateTimeSlotBookingStatus(timeSlots, booking[p].slot.id, TRUE)
    /\ notification' = showNotification("Appointment booked successfully!", "success")
    /\ bookedOk' = bookedOk \cup {booking[p].slot.id}
    /\ booking' = [booking EXCEPT ![p] = Idle]
    /\ availableSlots' = [availableSlots EXCEPT ![p] = <<>>]
    /\ doctorsWithSlots' = [doctorsWithSlots EXCEPT ![p] = NoDoctors]
    /\ UNCHANGED <<appointments, nextSlotId, nextApptId, slotPageVars,
                   dashboardVars, sampleDone, lastCall, auxVars>>

\* updateTimeSlotBookingStatus rejects (no such document, or the store refuses)
bookMarkFail(p) ==
    /\ booking[p].pc = "marking"
    /\ bookFailed(p)
    /\ UNCHANGED <<storeVars, slotPageVars, dashboardVars, sampleDone, lastCall, auxVars>>

(* ---------------------- ManageAvailability page ----------------------- *)
\* the snapshot listener of subscribeToDoctorTimeSlots(user.uid) fires
slotsSnapshot(d) ==
    /\ timeSlotsView[d] # subscribeToDoctorTimeSlots(timeSlots, d)
    /\ timeSlotsView' = [timeSlotsView EXCEPT
                            ![d] = subscribeToDoctorTimeSlots(timeSlots, d)]
    /\ UNCHANGED <<storeVars, patientVars, dashboardVars, sampleDone, notification,
                   bookedOk, lastCall, auxVars>>

\* handleAddSlot with createTimeSlot resolving
handleAddSlot(d) ==
    \E newSlot \in DateTimes :
        /\ CanAdd(1)
        /\ timeSlots' = createTimeSlot(timeSlots, nextSlotId,
               [date |-> newSlot[1], time |-> newSlot[2], doctorId |-> d,
                isBooked |-> FALSE])
        /\ nextSlotId' = nextSlotId + 1
        /\ notification' = showNotification("Available slot added successfully", "success")
        /\ UNCHANGED <<appointments, nextApptId, patientVars, slotPageVars,
                       dashboardVars, sampleDone, bookedOk, lastCall, auxVars>>

\* handleAddSlot with createTimeSlot rejecting
handleAddSlotFail(d) ==
    /\ notification' = showNotification("Failed to add slot", "error")
    /\ UNCHANGED <<storeVars, patientVars, slotPageVars, dashboardVars, sampleDone,
                   bookedOk, lastCall, auxVars>>

\* the remove button is rendered for a displayed slot that is not shown as booked
RemoveButton(slot) == ~slot.isBooked

\* handleRemoveSlot on a displayed slot with deleteTimeSlot resolving
handleRemoveSlot(d) ==
    \E i \in DOMAIN timeSlotsView[d] :
        /\ RemoveButton(timeSlotsView[d][i])
        /\ timeSlots' = deleteTimeSlot(timeSlots, timeSlotsView[d][i].id)
        /\ notification' = showNotification("Slot removed successfully", "success")
        /\ UNCHANGED <<appointments, nextSlotId, nextApptId, patientVars,
                       slotPageVars, dashboardVars, sampleDone, bookedOk, lastCall, auxVars>>

\* handleRemoveSlot on a displayed slot with deleteTimeSlot rejecting
handleRemoveSlotFail(d) ==
    /\ \E i \in DOMAIN timeSlotsView[d] : RemoveButton(timeSlotsView[d][i])
    /\ notification' = showNotification("Failed to remove slot", "error")
    /\ UNCHANGED <<storeVars, patientVars, slotPageVars, dashboardVars, sampleDone,
                   bookedOk, lastCall, auxVars>>

(* ------------------------ DoctorDashboard page ------------------------ *)
\* the snapshot listener of subscribeToDoctorAppointments(user.uid) fires
appointmentsSnapshot(d) ==
    /\ appointmentsView[d] # subscribeToDoctorAppointments(appointments, d)
    /\ appointmentsView' = [appointmentsView EXCEPT
                               ![d] = subscribeToDoctorAppointments(appointments, d)]
    /\ UNCHANGED <<storeVars, patientVars, slotPageVars, sampleDone, notification,
                   bookedOk, lastCall, auxVars>>

\* a variant of the buttons with a Complete button for a confirmed appointment
StatusButtonsWithComplete(appointment) ==
    IF appointment.status = "pending" THEN {"confirmed", "declined"}
    ELSE IF appointment.status = "confirmed" THEN {"completed"} ELSE {}

\* Confirm and Decline are rendered for an appointment displayed as pending
StatusButtons(appointment) ==
    IF appointment.status = "pending" THEN {"confirmed", "declined"} ELSE {}

\* handleUpdateAppointmentStatus on a displayed appointment, the update resolving
handleUpdateAppointmentStatus(d) ==
    \E i \in DOMAIN appointmentsView[d] :
        \E status \in StatusButtons(appointmentsView[d][i]) :
            /\ CanUpdateAppointment(appointments, appointmentsView[d][i].id)
            /\ appointments' = updateAppointmentStatus(appointments,
                                   appointmentsView[d][i].id, status)
            /\ notification' = showNotification("Appointment status successfully", "success")
            /\ UNCHANGED <<timeSlots, nextSlotId, nextApptId, patientVars,
                           slotPageVars, dashboardVars, sampleDone, bookedOk, lastCall, auxVars>>

\* handleUpdateAppointmentStatus on a displayed appointment, the update rejecting
handleUpdateAppointmentStatusFail(d) ==
    /\ \E i \in DOMAIN appointmentsView[d] : StatusButtons(appointmentsView[d][i]) # {}
    /\ notification' = showNotification("Failed to update appointment", "error")
    /\ UNCHANGED <<storeVars, patientVars, slotPageVars, dashboardVars, sampleDone,
                   bookedOk, lastCall, auxVars>>

(* ------------------------ sample-data button -------------------------- *)
\* dates of getNextWeekDates: from tomorrow on
SampleDateTimes == {dt \in DateTimes : dt[1] >= tomorrow}

RECURSIVE createTimeSlots(_, _, _, _)
createTimeSlots(slots, id, doctorId, todo) ==
    IF todo = <<>> THEN slots
    ELSE createTimeSlots(
            createTimeSlot(slots, id, [date |-> Head(todo)[1], time |-> Head(todo)[2],
                                       doctorId |-> doctorId, isBooked |-> FALSE]),
            id + 1, doctorId, Tail(todo))

\* initializeSampleData, once the sample accounts are new: the slots whose write
\* succeeds (any of the randomly drawn ones), then the sample appointment for
\* tomorrow 10:00 when a doctor and a patient were created and its write succeeds.
\* A later run finds the e-mail addresses in use and creates nothing.
initializeSampleData ==
    /\ ~sampleDone
    /\ sampleDone' = TRUE
    /\ \E doctor \in SampleDoctors, patient \in SamplePatients,
          drawn \in SUBSET SampleDateTimes, withAppointment \in BOOLEAN :
        /\ CanAdd(Cardinality(drawn) + (IF withAppointment THEN 1 ELSE 0))
        /\ timeSlots' = createTimeSlots(timeSlots, nextSlotId, doctor, SetToSeq(drawn))
        /\ nextSlotId' = nextSlotId + Cardinality(drawn)
        /\ appointments' =
              IF withAppointment
              THEN createAppointment(appointments, nextApptId,
                       [doctorId |-> doctor, patientId |-> patient,
                        specialty |-> sampleSpecialty, date |-> tomorrow,
                        time |-> sampleAppointmentTime, status |-> "pending",
                        slotId |-> NoId])
              ELSE appointments
        /\ nextApptId' = IF withAppointment THEN nextApptId + 1 ELSE nextApptId
    /\ UNCHANGED <<patientVars, slotPageVars, dashboardVars, notification, bookedOk,
                   lastCall, auxVars>>

(* ------------------------------- Spec --------------------------------- *)
\* The application with one patient session, one doctor session (both of the
\* doctor's pages) and the sample-data button.
SoloPatients == {"p1"}

Next ==
    \/ \E p \in SoloPatients : loadAvailableSlots(p)
    \/ \E p \in SoloPatients : bookAppointment(p)
    \/ \E p \in SoloPatients : bookCreateFail(p)
    \/ \E p \in SoloPatients : bookMarkOk(p)
    \/ \E p \in SoloPatients : bookMarkFail(p)
    \/ \E d \in Doctors : slotsSnapshot(d)
    \/ \E d \in Doctors : handleAddSlot(d)
    \/ \E d \in Doctors : handleAddSlotFail(d)
    \/ \E d \in Doctors : handleRemoveSlot(d)
    \/ \E d \in Doctors : handleRemoveSlotFail(d)
    \/ \E d \in Doctors : appointmentsSnapshot(d)
    \/ \E d \in Doctors : handleUpdateAppointmentStatus(d)
    \/ \E d \in Doctors : handleUpdateAppointmentStatusFail(d)
    \/ initializeSampleData

Spec == Init /\ [][Next]_vars

\* Concurrent booking: every patient session, and the doctor's ManageAvailability
\* page publishing and removing the slots they book.
NextBooking ==
    \/ \E p \in Patients : loadAvailableSlots(p)
    \/ \E p \in Patients : bookAppointment(p)
    \/ \E p \in Patients : bookCreateFail(p)
    \/ \E p \in Patients : bookMarkOk(p)
    \/ \E p \in Patients : bookMarkFail(p)
    \/ \E d \in Doctors : slotsSnapshot(d)
    \/ \E d \in Doctors : handleAddSlot(d)
    \/ \E d \in Doctors : handleAddSlotFail(d)
    \/ \E d \in Doctors : handleRemoveSlot(d)
    \/ \E d \in Doctors : handleRemoveSlotFail(d)

SpecBooking == Init /\ [][NextBooking]_vars

(* ------------------- the store operations, called directly ------------ *)
\* createAppointment(appointmentData) called in the session of account u
callCreateAppointment(u) ==
    \E doctorId \in Doctors, patientId \in Patients, dt \in SampleDateTimes :
        /\ CanAdd(1)
        /\ appointments' = createAppointment(appointments, nextApptId,
               [doctorId |-> doctorId, patientId |-> patientId,
                specialty |-> users[doctorId], date |-> dt[1],
                time |-> dt[2], status |-> "pending", slotId |-> NoId])
        /\ nextApptId' = nextApptId + 1
        /\ lastCall' = [op |-> "createAppointment", caller |-> u]
        /\ UNCHANGED <<timeSlots, nextSlotId, patientVars, slotPageVars,
                       dashboardVars, sampleDone, notification, bookedOk, auxVars>>

\* updateAppointmentStatus(appointmentId, status) called in the session of
\* account u, the document existing
callUpdateAppointmentStatus(u) ==
    \E a \in appointments, status \in Statuses :
        /\ CanUpdateAppointment(appointments, a.id)
        /\ appointments' = updateAppointmentStatus(appointments, a.id, status)
        /\ lastCall' = [op |-> "updateAppointmentStatus", caller |-> u]
        /\ UNCHANGED <<timeSlots, nextSlotId, nextApptId, patientVars, slotPageVars,
                       dashboardVars, sampleDone, notification, bookedOk, auxVars>>

\* updateAppointmentStatus called in the session of account u and rejecting
\* (no such document, or the store refuses): the error is rethrown
callUpdateAppointmentStatusFail(u) ==
    /\ lastCall' = [op |-> "updateAppointmentStatus", caller |-> u]
    /\ UNCHANGED <<storeVars, patientVars, slotPageVars, dashboardVars, sampleDone,
                   notification, bookedOk, auxVars>>

NextApi ==
    \/ \E u \in Users : callCreateAppointment(u)
    \/ \E u \in Users : callUpdateAppointmentStatus(u)
    \/ \E u \in Users : callUpdateAppointmentStatusFail(u)

SpecApi == Init /\ [][NextApi]_vars

(* ---------------- the slot operations, called directly ---------------- *)
today == tomorrow - 1
yesterday == today - 1

\* createTimeSlot(timeSlotData) called in the session of account u: the date is
\* whatever the caller passes
callCreateTimeSlot(u) ==
    \E doctorId \in Doctors, date \in {yesterday} \cup Dates, time \in Times :
        /\ CanAdd(1)
        /\ timeSlots' = createTimeSlot(timeSlots, nextSlotId,
               [date |-> date, time |-> time, doctorId |-> doctorId,
                isBooked |-> FALSE])
        /\ nextSlotId' = nextSlotId + 1
        /\ lastCall' = [op |-> "createTimeSlot", caller |-> u]
        /\ UNCHANGED <<appointments, nextApptId, patientVars, slotPageVars,
                       dashboardVars, sampleDone, notification, bookedOk, auxVars>>

\* deleteTimeSlot(slotId) called in the session of account u, for the id of a
\* document that was added (it may be gone already)
callDeleteTimeSlot(u) ==
    \E slotId \in 1 .. (nextSlotId - 1) :
        /\ timeSlots' = deleteTimeSlot(timeSlots, slotId)
        /\ lastCall' = [op |-> "deleteTimeSlot", caller |-> u]
        /\ UNCHANGED <<appointments, nextSlotId, nextApptId, patientVars,
                       slotPageVars, dashboardVars, sampleDone, notification,
                       bookedOk, auxVars>>

NextSlotApi ==
    \/ \E u \in Users : callCreateTimeSlot(u)
    \/ \E u \in Users : callDeleteTimeSlot(u)

SpecSlotApi == Init /\ [][NextSlotApi]_vars

(* ---------------- booking while the doctor's profile changes ---------- *)
\* createUserDocument called for the account of doctor d with another specialty
callCreateUserDocument(d) ==
    \E specialty \in Specialties :
        /\ specialty # users[d]
        /\ users' = createUserDocument(users, [uid |-> d, specialty |-> specialty])
        /\ UNCHANGED <<storeVars, patientVars, slotPageVars, dashboardVars, sampleDone,
                       notification, bookedOk, lastCall, sideVars>>

NextProfile ==
    \/ \E p \in SoloPatients : loadAvailableSlots(p)
    \/ \E p \in SoloPatients : bookAppointment(p)
    \/ \E p \in SoloPatients : bookMarkOk(p)
    \/ \E p \in SoloPatients : bookMarkFail(p)
    \/ \E d \in Doctors : handleAddSlot(d)
    \/ \E d \in Doctors : appointmentsSnapshot(d)
    \/ \E d \in Doctors : handleUpdateAppointmentStatus(d)
    \/ \E d \in Doctors : callCreateUserDocument(d)

SpecProfile == Init /\ [][NextProfile]_vars

(* ------------------------- local temporary storage -------------------- *)
\* everything but the browser-local lists
coreVars == <<storeVars, users, patientVars, slotPageVars, dashboardVars, sampleDone,
              notification, bookedOk, lastCall>>
appVars == <<coreVars, readVars, authVars, liveVars, hookVars, busyVars>>

\* the optional doctorId argument left out
NoDoctor == ""

\* saveToStorage: the list written under the key, or, when localStorage.setItem
\* throws, the failure logged and the stored list left as it was
saveToStorage(stored, data, saved) == IF saved THEN data ELSE stored

\* the uids and the e-mail addresses of a stored user list
StoredUids(stored) == {stored[i].uid : i \in DOMAIN stored}
StoredEmails(stored) == {stored[i].email : i \in DOMAIN stored}

\* a variant of tempCreateUser that looks for the uid only
tempCreateUserByUid(stored, userData, saved) ==
    IF \E i \in DOMAIN stored : stored[i].uid = userData.uid
    THEN [threw |-> TRUE, users |-> stored, value |-> null]
    ELSE [threw |-> FALSE,
          users |-> saveToStorage(stored, Append(stored, userData), saved),
          value |-> userData.email]

\* tempCreateUser: throws 'User already exists' when a stored user has the uid
\* or the e-mail address, else pushes the user, saves the list and returns the
\* user
tempCreateUser(stored, userData, saved) ==
    IF \E i \in DOMAIN stored :
          stored[i].uid = userData.uid \/ stored[i].email = userData.email
    THEN [threw |-> TRUE, users |-> stored, value |-> null]
    ELSE [threw |-> FALSE,
          users |-> saveToStorage(stored, Append(stored, userData), saved),
          value |-> userData.email]

\* tempGetUser: the first stored user with the uid, or null
tempGetUser(stored, uid) ==
    IF uid \in StoredUids(stored)
    THEN stored[CHOOSE i \in DOMAIN stored :
                   stored[i].uid = uid /\ \A j \in 1 .. (i - 1) : stored[j].uid # uid].email
    ELSE null

\* timeSlots.push(newTimeSlot); saveToStorage
tempCreateTimeSlot(stored, id, timeSlot) ==
    Append(stored, [id |-> id, doctorId |-> timeSlot.doctorId, date |-> timeSlot.date,
                    time |-> timeSlot.time, isBooked |-> timeSlot.isBooked])

\* the stored list, filtered by doctor when one is given, in stored order
tempGetTimeSlots(stored, doctorId) ==
    IF doctorId # NoDoctor
    THEN SelectSeq(stored, LAMBDA slot : slot.doctorId = doctorId)
    ELSE stored

tempGetAvailableSlots(stored, doctorId) ==
    SelectSeq(tempGetTimeSlots(stored, doctorId), LAMBDA slot : ~slot.isBooked)

tempDeleteTimeSlot(stored, id) == SelectSeq(stored, LAMBDA slot : slot.id # id)

\* appointments.push(newAppointment), then every stored slot of the same
\* doctor, date and time is marked booked
tempCreateAppointment(storedAppointments, storedSlots, id, appointment) ==
    [appointments |->
        Append(storedAppointments,
               [id |-> id, doctorId |-> appointment.doctorId,
                patientId |-> appointment.patientId, date |-> appointment.date,
                time |-> appointment.time, status |-> appointment.status]),
     timeSlots |->
        [i \in DOMAIN storedSlots |->
            IF SameSlotKey(storedSlots[i], appointment)
            THEN [storedSlots[i] EXCEPT !.isBooked = TRUE] ELSE storedSlots[i]]]

tempGetAppointments(stored, userId, role) ==
    IF userId = "" THEN stored
    ELSE SelectSeq(stored, LAMBDA appointment :
                      IF role = "patient" THEN appointment.patientId = userId
                      ELSE appointment.doctorId = userId)

\* {...appointment, ...updates}: the fields of updates over those of the appointment
Override(appointment, updates) ==
    [field \in DOMAIN appointment \cup DOMAIN updates |->
        IF field \in DOMAIN updates THEN updates[field] ELSE appointment[field]]

\* appointments.findIndex(apt => apt.id === id): the first position, 0 for -1
findIndex(stored, id) ==
    IF \E k \in DOMAIN stored : stored[k].id = id
    THEN CHOOSE k \in DOMAIN stored :
            stored[k].id = id /\ \A j \in 1 .. (k - 1) : stored[j].id # id
    ELSE 0

\* a variant of tempUpdateAppointment that puts the updated appointment last
tempUpdateAppointmentLast(stored, id, updates, saved) ==
    LET appointmentIndex == findIndex(stored, id) IN
    IF appointmentIndex = 0
    THEN [appointments |-> stored, returnedNull |-> TRUE, value |-> <<>>]
    ELSE [appointments |->
             saveToStorage(stored,
                 Append(SelectSeq(stored, LAMBDA apt : apt.id # id),
                        Override(stored[appointmentIndex], updates)), saved),
          returnedNull |-> FALSE,
          value |-> <<Override(stored[appointmentIndex], updates)>>]

\* tempUpdateAppointment: null when no stored appointment has the id, else the
\* appointment replaced in place by itself with the updates, the list saved,
\* and the updated appointment returned (value holds it)
tempUpdateAppointment(stored, id, updates, saved) ==
    LET appointmentIndex == findIndex(stored, id) IN
    IF appointmentIndex = 0
    THEN [appointments |-> stored, returnedNull |-> TRUE, value |-> <<>>]
    ELSE [appointments |->
             saveToStorage(stored,
                 [i \in DOMAIN stored |->
                     IF i = appointmentIndex
                     THEN Override(stored[appointmentIndex], updates) ELSE stored[i]],
                 saved),
          returnedNull |-> FALSE,
          value |-> <<Override(stored[appointmentIndex], updates)>>]

\* id slot_<doctor>_<date>_<time> of a sample slot
sampleSlotId(date, time) == 100 + (24 * date) + time

\* the sample slots of one day: the first count entries of the list of times
tempSampleSlots(doctor, count) ==
    [i \in 1 .. count |->
        [id |-> sampleSlotId(tomorrow, SortSeq(SetToSeq(Times), <)[i]),
         doctorId |-> doctor,
         date |-> tomorrow, time |-> SortSeq(SetToSeq(Times), <)[i],
         isBooked |-> FALSE]]

callTempCreateTimeSlot ==
    \E doctorId \in Doctors, dt \in DateTimes :
        /\ tempNextId <= MaxDocs
        /\ tempTimeSlots' = tempCreateTimeSlot(tempTimeSlots, tempNextId,
               [doctorId |-> doctorId, date |-> dt[1], time |-> dt[2],
                isBooked |-> FALSE])
        /\ tempNextId' = tempNextId + 1
        /\ UNCHANGED <<tempAppointments, tempUsers, tempHistory, appVars>>

callTempDeleteTimeSlot ==
    \E i \in DOMAIN tempTimeSlots :
        /\ tempTimeSlots' = tempDeleteTimeSlot(tempTimeSlots, tempTimeSlots[i].id)
        /\ UNCHANGED <<tempAppointments, tempNextId, tempUsers, tempHistory, appVars>>

callTempCreateAppointment ==
    \E doctorId \in Doctors, patientId \in SoloPatients, dt \in DateTimes :
        LET saved == tempCreateAppointment(tempAppointments, tempTimeSlots, tempNextId,
                        [doctorId |-> doctorId, patientId |-> patientId,
                         date |-> dt[1], time |-> dt[2], status |-> "pending"])
        IN  /\ tempNextId <= MaxDocs
            /\ tempAppointments' = saved.appointments
            /\ tempTimeSlots' = saved.timeSlots
            /\ tempNextId' = tempNextId + 1
            /\ UNCHANGED <<tempUsers, tempHistory, appVars>>

\* the updates tempUpdateAppointment is called with
Updates ==
    {[status |-> "confirmed"], [status |-> "completed"],
     [status |-> "declined", time |-> sampleAppointmentTime]}

callTempUpdateAppointment ==
    \E id \in 1 .. MaxDocs, updates \in Updates, saved \in BOOLEAN :
        LET updated == tempUpdateAppointment(tempAppointments, id, updates, saved)
        IN  /\ tempAppointments' = updated.appointments
            /\ tempAppointmentCall' =
                  [called |-> TRUE, id |-> id, updates |-> updates, saved |-> saved,
                   returnedNull |-> updated.returnedNull, value |-> updated.value,
                   turn |-> 1 - tempAppointmentCall.turn]
            /\ UNCHANGED <<tempTimeSlots, tempNextId, tempUsers, tempUserCall, appVars>>

\* the e-mail address of a sample account
sampleEmail(uid) ==
    IF uid \in SampleDoctors THEN "sarah.johnson@doccare.com" ELSE "john.smith@example.com"

\* the sample users: the doctors, then the patients
tempSampleUsers(doctor, patient) ==
    <<[uid |-> doctor, email |-> sampleEmail(doctor)],
      [uid |-> patient, email |-> sampleEmail(patient)]>>

\* the stored user list is replaced by the sample users, the stored slot list
\* by the sample slots
tempInitializeSampleData ==
    \E doctor \in SampleDoctors, patient \in SamplePatients,
       count \in 1 .. Cardinality(Times) :
        /\ \/ tempTimeSlots # tempSampleSlots(doctor, count)
           \/ tempUsers # tempSampleUsers(doctor, patient)
        /\ tempUsers' = tempSampleUsers(doctor, patient)
        /\ tempTimeSlots' = tempSampleSlots(doctor, count)
        /\ UNCHANGED <<tempAppointments, tempNextId, tempHistory, appVars>>

\* localStorage.removeItem for every key
tempClearAllData ==
    /\ tempTimeSlots # <<>> \/ tempAppointments # <<>> \/ tempUsers # <<>>
    /\ tempUsers' = <<>>
    /\ tempTimeSlots' = <<>>
    /\ tempAppointments' = <<>>
    /\ UNCHANGED <<tempNextId, tempHistory, appVars>>

\* the accounts and e-mail addresses tempCreateUser is called with
LocalUids == Users \cup SampleDoctors
LocalEmails == Emails \cup {sampleEmail(patient) : patient \in SamplePatients}

callTempCreateUser ==
    \E uid \in LocalUids, email \in LocalEmails, saved \in BOOLEAN :
        LET created == tempCreateUser(tempUsers, [uid |-> uid, email |-> email], saved)
        IN  /\ tempUsers' = created.users
            /\ tempUserCall' = [called |-> TRUE, uid |-> uid, email |-> email,
                                saved |-> saved, threw |-> created.threw,
                                before |-> tempUsers]
            /\ UNCHANGED <<tempVars, tempAppointmentCall, appVars>>

NextTempUsers ==
    \/ callTempCreateUser
    \/ tempInitializeSampleData
    \/ tempClearAllData

SpecTempUsers == Init /\ [][NextTempUsers]_vars

\* the slot and appointment lists, as created, listed, deleted and cleared
NextTemp ==
    \/ callTempCreateTimeSlot
    \/ callTempDeleteTimeSlot
    \/ callTempCreateAppointment
    \/ tempInitializeSampleData
    \/ tempClearAllData

SpecTemp == Init /\ [][NextTemp]_vars

\* the appointment list, as created and updated
NextTempAppointments ==
    \/ callTempCreateTimeSlot
    \/ callTempCreateAppointment
    \/ callTempUpdateAppointment

SpecTempAppointments == Init /\ [][NextTempAppointments]_vars

(* ------------------ how the store operations end --------------------- *)
\* failed: the request to the store is rejected.  threw: the operation rethrows
\* to its caller.  value: what it returns otherwise.

\* getDoc in try; the catch logs and returns null
getUserDocument(userDocs, uid, failed) ==
    [threw |-> FALSE,
     value |-> IF failed THEN null
               ELSE IF uid \in DOMAIN userDocs THEN userDocs[uid] ELSE null]

\* getDocs in try; the catch logs and returns []
getDoctorTimeSlotsOutcome(slots, doctorId, failed) ==
    [threw |-> FALSE,
     value |-> IF failed THEN <<>> ELSE getDoctorTimeSlots(slots, doctorId)]

getAvailableTimeSlotsOutcome(slots, failed) ==
    [threw |-> FALSE,
     value |-> IF failed THEN <<>> ELSE getAvailableTimeSlots(slots)]

getPatientAppointmentsOutcome(appts, patientId, failed) ==
    [threw |-> FALSE,
     value |-> IF failed THEN <<>> ELSE getPatientAppointments(appts, patientId)]

getDoctorAppointmentsOutcome(appts, doctorId, failed) ==
    [threw |-> FALSE,
     value |-> IF failed THEN <<>> ELSE getDoctorAppointments(appts, doctorId)]

\* addDoc in try; the catch logs and rethrows
createTimeSlotOutcome(id, failed) ==
    [threw |-> failed, value |-> IF failed THEN NoId ELSE id]

createAppointmentOutcome(id, failed) ==
    [threw |-> failed, value |-> IF failed THEN NoId ELSE id]

\* the record of a call: the operation, whether the store failed, how it ended
Ended(op, failed, outcome) ==
    [op |-> op, failed |-> failed, threw |-> outcome.threw, value |-> outcome.value]

exceptRead == <<patientVars, slotPageVars, dashboardVars, sampleDone, notification,
                bookedOk, lastCall, localVars, authVars, liveVars, hookVars,
                busyVars>>

readUserDocument ==
    \E uid \in Doctors \cup {"nobody"}, failed \in BOOLEAN :
        /\ lastResult' = Ended("getUserDocument", failed,
                               getUserDocument(users, uid, failed))
        /\ UNCHANGED <<storeVars, users, exceptRead>>

readTimeSlots ==
    \E doctorId \in Doctors \cup {NoDoctor}, failed \in BOOLEAN :
        /\ lastResult' =
              IF doctorId = NoDoctor
              THEN Ended("getAvailableTimeSlots", failed,
                         getAvailableTimeSlotsOutcome(timeSlots, failed))
              ELSE Ended("getDoctorTimeSlots", failed,
                         getDoctorTimeSlotsOutcome(timeSlots, doctorId, failed))
        /\ UNCHANGED <<storeVars, users, exceptRead>>

readAppointments ==
    \E failed \in BOOLEAN :
        /\ \/ \E patientId \in SoloPatients :
                 lastResult' = Ended("getPatientAppointments", failed,
                     getPatientAppointmentsOutcome(appointments, patientId, failed))
           \/ \E doctorId \in Doctors :
                 lastResult' = Ended("getDoctorAppointments", failed,
                     getDoctorAppointmentsOutcome(appointments, doctorId, failed))
        /\ UNCHANGED <<storeVars, users, exceptRead>>

writeTimeSlot ==
    \E doctorId \in Doctors, dt \in DateTimes, failed \in BOOLEAN :
        /\ CanAdd(1)
        /\ lastResult' = Ended("createTimeSlot", failed,
                               createTimeSlotOutcome(nextSlotId, failed))
        /\ timeSlots' =
              IF failed THEN timeSlots
              ELSE createTimeSlot(timeSlots, nextSlotId,
                       [date |-> dt[1], time |-> dt[2], doctorId |-> doctorId,
                        isBooked |-> FALSE])
        /\ nextSlotId' = IF failed THEN nextSlotId ELSE nextSlotId + 1
        /\ UNCHANGED <<appointments, nextApptId, users, exceptRead>>

writeAppointment ==
    \E doctorId \in Doctors, patientId \in SoloPatients, dt \in SampleDateTimes,
       failed \in BOOLEAN :
        /\ CanAdd(1)
        /\ lastResult' = Ended("createAppointment", failed,
                               createAppointmentOutcome(nextApptId, failed))
        /\ appointments' =
              IF failed THEN appointments
              ELSE createAppointment(appointments, nextApptId,
                       [doctorId |-> doctorId, patientId |-> patientId,
                        specialty |-> users[doctorId], date |-> dt[1],
                        time |-> dt[2], status |-> "pending", slotId |-> NoId])
        /\ nextApptId' = IF failed THEN nextApptId ELSE nextApptId + 1
        /\ UNCHANGED <<timeSlots, nextSlotId, users, exceptRead>>

NextRead ==
    \/ readUserDocument
    \/ readTimeSlots
    \/ readAppointments
    \/ writeTimeSlot
    \/ writeAppointment

SpecRead == Init /\ [][NextRead]_vars

(* ------------------------- routes and their guard --------------------- *)
\* the role field of an account's user document
role(account) == IF account \in Doctors THEN "doctor" ELSE "patient"

PatientPaths == {"/patient/dashboard", "/book-appointment"}
DoctorPaths == {"/doctor/dashboard", "/manage-availability"}
PublicPaths == {"/", "/login", "/register", "/not-found"}
Paths == PublicPaths \cup PatientPaths \cup DoctorPaths

\* the requiredRole the Router gives the route of a path ("" for a public one)
requiredRole(path) ==
    IF path \in PatientPaths THEN "patient"
    ELSE IF path \in DoctorPaths THEN "doctor" ELSE ""

\* a variant of the guard that does not look at the role
ProtectedRouteAnyRole(loadingNow, userNow, required) ==
    IF loadingNow THEN [shows |-> "spinner", navigate |-> ""]
    ELSE IF userNow = NoUser THEN [shows |-> "nothing", navigate |-> "/login"]
    ELSE [shows |-> "children", navigate |-> ""]

\* what ProtectedRoute returns and the navigate call it makes while rendering
ProtectedRoute(loadingNow, userNow, required) ==
    IF loadingNow THEN [shows |-> "spinner", navigate |-> ""]
    ELSE IF userNow = NoUser THEN [shows |-> "nothing", navigate |-> "/login"]
    ELSE IF required # "" /\ role(userNow) # required
         THEN [shows |-> "nothing",
               navigate |-> IF role(userNow) = "patient" THEN "/patient/dashboard"
                            ELSE "/doctor/dashboard"]
    ELSE [shows |-> "children", navigate |-> ""]

\* the Switch: a public page as it is, a protected page inside its ProtectedRoute
Router(path, loadingNow, userNow) ==
    IF requiredRole(path) = "" THEN [shows |-> path, navigate |-> ""]
    ELSE LET guard == ProtectedRoute(loadingNow, userNow, requiredRole(path))
         IN  [shows |-> IF guard.shows = "children" THEN path ELSE guard.shows,
              navigate |-> guard.navigate]

exceptAuth == <<coreVars, localVars, readVars, liveVars, hookVars, busyVars>>

\* the auth-state listener is called with no account: setUser(null), setLoading(false)
authStateSignedOut ==
    /\ currentUser = NoUser
    /\ loading
    /\ user' = NoUser
    /\ loading' = FALSE
    /\ shown' = Router(location, loading', user')
    /\ UNCHANGED <<currentUser, location, exceptAuth>>

\* an account signs in: login (or the listener) sets loading
signIn(account) ==
    /\ currentUser = NoUser
    /\ currentUser' = account
    /\ loading' = TRUE
    /\ shown' = Router(location, loading', user)
    /\ UNCHANGED <<user, location, exceptAuth>>

\* the auth-state listener is called again for the signed-in account
authStateChanged ==
    /\ currentUser # NoUser
    /\ ~loading
    /\ loading' = TRUE
    /\ shown' = Router(location, loading', user)
    /\ UNCHANGED <<user, currentUser, location, exceptAuth>>

\* the user document was looked up: setUser(userDoc) or setUser(null), then
\* setLoading(false)
userLoaded ==
    \E found \in BOOLEAN :
        /\ currentUser # NoUser
        /\ loading
        /\ user' = IF found THEN currentUser ELSE NoUser
        /\ loading' = FALSE
        /\ shown' = Router(location, loading', user')
        /\ UNCHANGED <<currentUser, location, exceptAuth>>

\* logout: setError(null), signOut, setUser(null); the listener then runs with
\* no account
logout ==
    /\ currentUser # NoUser
    /\ currentUser' = NoUser
    /\ user' = NoUser
    /\ loading' = FALSE
    /\ error' = ""
    /\ shown' = Router(location, loading', user')
    /\ UNCHANGED <<location, coreVars, localVars, readVars, liveVars, accounts,
                   userDocuments, call, lookups, returned, busyVars>>

\* the address is changed by a link or by hand
navigateTo(path) ==
    /\ path # location
    /\ location' = path
    /\ shown' = Router(location', loading, user)
    /\ UNCHANGED <<user, loading, currentUser, exceptAuth>>

\* the navigate call made while rendering takes effect
redirect ==
    /\ shown.navigate # ""
    /\ location' = shown.navigate
    /\ shown' = Router(location', loading, user)
    /\ UNCHANGED <<user, loading, currentUser, exceptAuth>>

NextRoute ==
    \/ authStateSignedOut
    \/ \E account \in Users : signIn(account)
    \/ authStateChanged
    \/ userLoaded
    \/ logout
    \/ \E path \in Paths : navigateTo(path)
    \/ redirect

SpecRoute == Init /\ [][NextRoute]_vars

(* ----------------------- register and login -------------------------- *)
\* A user document is given by its e-mail field, under its uid.
\* how the write of a user document to the remote store can end
WriteOutcomes == {"ok", "permission-denied", "unavailable", "internal"}

\* setDoc of createUserDocument on the documents of the accounts
setDoc(userDocs, userData) ==
    [uid \in DOMAIN userDocs \cup {userData.uid} |->
        IF uid = userData.uid THEN userData.email ELSE userDocs[uid]]

\* the message register and login set as the error and throw
errorMessage(code, message) ==
    IF code = "auth/email-already-in-use" THEN "Email already in use"
    ELSE IF code \in {"auth/user-not-found", "auth/wrong-password"}
         THEN "Invalid email or password"
    ELSE IF code = "permission-denied" THEN "Database access denied"
    ELSE message

\* uids the auth service has not given out
FreshUids == Users \ ({a.uid : a \in accounts} \cup DOMAIN userDocuments
                         \cup StoredUids(tempUsers))

hookRest == <<coreVars, tempVars, tempHistory, readVars, liveVars, location, busyVars>>

\* register up to its first await, createUserWithEmailAndPassword rejecting
registerEmailInUse(email) ==
    /\ call.pc = "idle"
    /\ \E a \in accounts : a.email = email
    /\ error' = errorMessage("auth/email-already-in-use", "")
    /\ loading' = FALSE
    /\ returned' = [op |-> "register", ok |-> FALSE, uid |-> "",
                    outcome |-> "auth/email-already-in-use", stored |-> FALSE]
    /\ shown' = Router(location, loading', user)
    /\ UNCHANGED <<user, currentUser, accounts, userDocuments, tempUsers, call,
                   lookups, hookRest>>

\* register up to its second await: the account is created and signed in, the
\* auth-state callback starts for it, createUserDocument is issued
registerStart(email) ==
    \E uid \in FreshUids :
        /\ call.pc = "idle"
        /\ ~\E a \in accounts : a.email = email
        /\ accounts' = accounts \cup {[uid |-> uid, email |-> email]}
        /\ currentUser' = uid
        /\ error' = ""
        /\ loading' = TRUE
        /\ lookups' = lookups \cup {uid}
        /\ call' = [op |-> "register", pc |-> "writing", uid |-> uid, email |-> email]
        /\ shown' = Router(location, loading', user)
        /\ UNCHANGED <<user, userDocuments, tempUsers, returned, hookRest>>

\* the rest of register: createUserDocument ends, with the fallback to
\* tempCreateUser, then setUser and return, or catch, and finally
registerWrite(outcome, saved) ==
    LET userData == [uid |-> call.uid, email |-> call.email]
        fallback == outcome \in {"permission-denied", "unavailable"}
        local == tempCreateUser(tempUsers, userData, saved)
        succeeded == outcome = "ok" \/ (fallback /\ ~local.threw)
        \* error.code and error.message in the outer catch
        code == IF fallback THEN "" ELSE outcome
        message == IF fallback THEN "User already exists" ELSE outcome
        cleanUp == ~succeeded /\ code = "permission-denied" /\ currentUser # NoUser
    IN  /\ call.op = "register" /\ call.pc = "writing"
        /\ userDocuments' = IF outcome = "ok" THEN setDoc(userDocuments, userData)
                            ELSE userDocuments
        /\ tempUsers' = IF fallback THEN local.users ELSE tempUsers
        /\ user' = IF succeeded THEN call.uid ELSE user
        /\ error' = IF succeeded THEN error ELSE errorMessage(code, message)
        /\ accounts' = IF cleanUp THEN {a \in accounts : a.uid # currentUser}
                       ELSE accounts
        /\ currentUser' = IF cleanUp THEN NoUser ELSE currentUser
        /\ loading' = FALSE
        /\ call' = NoOperation
        /\ returned' = [op |-> "register", ok |-> succeeded, uid |-> call.uid,
                        outcome |-> outcome, stored |-> FALSE]
        /\ shown' = Router(location, loading', user')
        /\ UNCHANGED <<lookups, hookRest>>

\* login up to its first await, signInWithEmailAndPassword rejecting
loginInvalid(email) ==
    /\ call.pc = "idle"
    /\ error' = errorMessage("auth/wrong-password", "")
    /\ loading' = FALSE
    /\ returned' = [op |-> "login", ok |-> FALSE, uid |-> "",
                    outcome |-> "auth/wrong-password", stored |-> FALSE]
    /\ shown' = Router(location, loading', user)
    /\ UNCHANGED <<user, currentUser, accounts, userDocuments, tempUsers, call,
                   lookups, hookRest>>

\* login up to its second await: the account is signed in, the auth-state
\* callback starts for it, getUserDocument is issued
loginStart(email) ==
    \E a \in accounts :
        /\ call.pc = "idle"
        /\ a.email = email
        /\ currentUser' = a.uid
        /\ error' = ""
        /\ loading' = TRUE
        /\ lookups' = lookups \cup {a.uid}
        /\ call' = [op |-> "login", pc |-> "reading", uid |-> a.uid, email |-> email]
        /\ shown' = Router(location, loading', user)
        /\ UNCHANGED <<user, accounts, userDocuments, tempUsers, returned, hookRest>>

\* the rest of login: getUserDocument ends (the fallback to tempGetUser is in
\* the catch of its call), then setUser and return, or catch, and finally
loginRead(failed) ==
    LET read == getUserDocument(userDocuments, call.uid, failed)
        userDoc == IF read.threw THEN tempGetUser(tempUsers, call.uid) ELSE read.value
    IN  /\ call.op = "login" /\ call.pc = "reading"
        /\ user' = IF userDoc # null THEN call.uid ELSE user
        /\ error' = IF userDoc # null THEN error ELSE errorMessage("", "User data not found")
        /\ loading' = FALSE
        /\ call' = NoOperation
        /\ returned' = [op |-> "login", ok |-> userDoc # null, uid |-> call.uid,
                        outcome |-> IF failed THEN "unavailable" ELSE "ok",
                        stored |-> call.uid \in StoredUids(tempUsers)]
        /\ shown' = Router(location, loading', user')
        /\ UNCHANGED <<currentUser, accounts, userDocuments, tempUsers, lookups,
                       hookRest>>

\* the auth-state callback of an account after its await: the user document
\* read from the remote store, else from the local list; setUser, setLoading(false)
listenerLookup(uid, failed) ==
    LET read == getUserDocument(userDocuments, uid, failed).value
        userDoc == IF read = null THEN tempGetUser(tempUsers, uid) ELSE read
    IN  /\ uid \in lookups
        /\ lookups' = lookups \ {uid}
        /\ user' = IF userDoc # null THEN uid ELSE NoUser
        /\ loading' = FALSE
        /\ shown' = Router(location, loading', user')
        /\ UNCHANGED <<currentUser, accounts, userDocuments, tempUsers, error, call,
                       returned, hookRest>>

NextAuth ==
    \/ authStateSignedOut
    \/ \E email \in Emails : registerEmailInUse(email)
    \/ \E email \in Emails : registerStart(email)
    \/ \E outcome \in WriteOutcomes, saved \in BOOLEAN : registerWrite(outcome, saved)
    \/ \E email \in Emails : loginInvalid(email)
    \/ \E email \in Emails : loginStart(email)
    \/ \E failed \in BOOLEAN : loginRead(failed)
    \/ \E uid \in Users, failed \in BOOLEAN : listenerLookup(uid, failed)
    \/ logout
    \/ tempInitializeSampleData
    \/ tempClearAllData

SpecAuth == Init /\ [][NextAuth]_vars

(* ------------------- busy markers of the doctor's pages --------------- *)
\* The handlers of the doctor's pages in the two steps their await makes.
\* the sequence without its k-th element
Without(seq, k) == [i \in 1 .. (Len(seq) - 1) |-> IF i < k THEN seq[i] ELSE seq[i + 1]]

\* the buttons of an item are disabled while the marker holds its id
Disabled(marker, id) == marker = id

pageRest == <<patientVars, sampleDone, bookedOk, lastCall, users, localVars, readVars,
              authVars, liveVars, hookVars>>

\* a click on an enabled Confirm or Decline: setUpdating(appointmentId), then
\* updateAppointmentStatus is awaited
handleUpdateAppointmentStatusStart(d) ==
    \E i \in DOMAIN appointmentsView[d] :
        \E status \in StatusButtons(appointmentsView[d][i]) :
            /\ ~Disabled(updating[d], appointmentsView[d][i].id)
            /\ Len(pendingUpdates[d]) < MaxCalls
            /\ updating' = [updating EXCEPT ![d] = appointmentsView[d][i].id]
            /\ pendingUpdates' = [pendingUpdates EXCEPT ![d] =
                   Append(@, [id |-> appointmentsView[d][i].id, status |-> status])]
            /\ UNCHANGED <<storeVars, notification, deleting, pendingDeletes,
                           slotPageVars, dashboardVars, pageRest>>

\* an awaited updateAppointmentStatus ends: the notification, then
\* setUpdating(null) in finally
handleUpdateAppointmentStatusEnd(d) ==
    \E k \in DOMAIN pendingUpdates[d], rejected \in BOOLEAN :
        LET update == pendingUpdates[d][k]
            resolves == ~rejected /\ CanUpdateAppointment(appointments, update.id)
        IN  /\ appointments' = IF resolves
                               THEN updateAppointmentStatus(appointments, update.id,
                                                            update.status)
                               ELSE appointments
            /\ notification' = IF resolves
                               THEN showNotification("Appointment status successfully", "success")
                               ELSE showNotification("Failed to update appointment", "error")
            /\ updating' = [updating EXCEPT ![d] = NoId]
            /\ pendingUpdates' = [pendingUpdates EXCEPT ![d] = Without(@, k)]
            /\ UNCHANGED <<timeSlots, nextSlotId, nextApptId, deleting, pendingDeletes,
                           slotPageVars, dashboardVars, pageRest>>

\* a click on an enabled remove button: setDeleting(slotId), then deleteTimeSlot
\* is awaited
handleRemoveSlotStart(d) ==
    \E i \in DOMAIN timeSlotsView[d] :
        /\ RemoveButton(timeSlotsView[d][i])
        /\ ~Disabled(deleting[d], timeSlotsView[d][i].id)
        /\ Len(pendingDeletes[d]) < MaxCalls
        /\ deleting' = [deleting EXCEPT ![d] = timeSlotsView[d][i].id]
        /\ pendingDeletes' = [pendingDeletes EXCEPT ![d] =
                                 Append(@, timeSlotsView[d][i].id)]
        /\ UNCHANGED <<storeVars, notification, updating, pendingUpdates,
                       slotPageVars, dashboardVars, pageRest>>

\* an awaited deleteTimeSlot ends: the notification, then setDeleting(null) in
\* finally
handleRemoveSlotEnd(d) ==
    \E k \in DOMAIN pendingDeletes[d], rejected \in BOOLEAN :
        /\ timeSlots' = IF rejected THEN timeSlots
                        ELSE deleteTimeSlot(timeSlots, pendingDeletes[d][k])
        /\ notification' = IF rejected
                           THEN showNotification("Failed to remove slot", "error")
                           ELSE showNotification("Slot removed successfully", "success")
        /\ deleting' = [deleting EXCEPT ![d] = NoId]
        /\ pendingDeletes' = [pendingDeletes EXCEPT ![d] = Without(@, k)]
        /\ UNCHANGED <<appointments, nextSlotId, nextApptId, updating, pendingUpdates,
                       slotPageVars, dashboardVars, pageRest>>

NextBusy ==
    \/ \E d \in Doctors : handleAddSlot(d)
    \/ \E p \in SoloPatients : loadAvailableSlots(p)
    \/ \E p \in SoloPatients : bookAppointment(p)
    \/ \E p \in SoloPatients : bookMarkOk(p)
    \/ \E d \in Doctors : slotsSnapshot(d)
    \/ \E d \in Doctors : appointmentsSnapshot(d)
    \/ \E d \in Doctors : handleUpdateAppointmentStatusStart(d)
    \/ \E d \in Doctors : handleUpdateAppointmentStatusEnd(d)
    \/ \E d \in Doctors : handleRemoveSlotStart(d)
    \/ \E d \in Doctors : handleRemoveSlotEnd(d)

SpecBusy == Init /\ [][NextBusy]_vars

(* ------------------------ live dashboards ----------------------------- *)
\* PatientDashboard: the snapshot listener of subscribeToPatientAppointments fires
patientAppointmentsSnapshot(p) ==
    /\ patientAppointments[p] # subscribeToPatientAppointments(appointments, p)
    /\ patientAppointments' = [patientAppointments EXCEPT
                                  ![p] = subscribeToPatientAppointments(appointments, p)]
    /\ UNCHANGED <<coreVars, localVars, readVars, authVars, hookVars, busyVars>>

NextLive ==
    \/ \E p \in SoloPatients : loadAvailableSlots(p)
    \/ \E p \in SoloPatients : bookAppointment(p)
    \/ \E p \in SoloPatients : bookMarkOk(p)
    \/ \E p \in SoloPatients : bookMarkFail(p)
    \/ \E d \in Doctors : handleAddSlot(d)
    \/ \E d \in Doctors : handleUpdateAppointmentStatus(d)
    \/ \E d \in Doctors : appointmentsSnapshot(d)
    \/ \E p \in SoloPatients : patientAppointmentsSnapshot(p)

\* a registered listener is called after every change of its query's result
SpecLive ==
    /\ Init
    /\ [][NextLive]_vars
    /\ \A d \in Doctors : WF_vars(appointmentsSnapshot(d))
    /\ \A p \in SoloPatients : WF_vars(patientAppointmentsSnapshot(p))

(* ------------------------------ properties ---------------------------- *)
\* an appointment that still holds its slot
ActiveStatuses == {"pending", "confirmed"}

\* the status changes the specification allows
ValidTransitions ==
    {<<"pending", "confirmed">>, <<"pending", "declined">>, <<"confirmed", "completed">>}

\* ids of the slots the open-slot listing returns
OpenSlotIds(slots) ==
    {getAvailableTimeSlots(slots)[i].id : i \in DOMAIN getAvailableTimeSlots(slots)}

\* C1: no double booking: in no reachable state do appointments of two
\* patients exist for the same slot (of two bookings of one slot issued from
\* sessions that both loaded it as open, only one creates an appointment).
C1_NoDoubleBooking ==
    \A a, b \in appointments :
        (a.slotId # NoId /\ a.slotId = b.slotId) => a.patientId = b.patientId

\* C2: a booking call that fails leaves no partially-applied state: when the
\* call returns with the error notification, no appointment made by that call
\* exists.
C2_FailedBookingLeavesNothing ==
    [][\A p \in Patients :
          (booking[p].pc = "marking" /\ booking'[p].pc = "idle"
              /\ notification' = "error")
          => ~\E a \in appointments' : a.id = booking[p].apptId]_vars

\* C3: an appointment is created atomically with marking its slot booked: in
\* every reachable state each pending or confirmed appointment has a booked
\* slot with its (doctorId, date, time), and each booked slot has exactly one
\* such appointment; appointments of the sample data included.
C3_AppointmentHasBookedSlot ==
    /\ \A a \in appointments :
          a.status \in ActiveStatuses
          => \E s \in timeSlots : SameSlotKey(s, a) /\ s.isBooked
    /\ \A s \in timeSlots :
          s.isBooked
          => Cardinality({a \in appointments :
                             a.status \in ActiveStatuses /\ SameSlotKey(a, s)}) = 1

\* C4: status monotonicity: every change of an appointment's status is one of
\* pending->confirmed, pending->declined, confirmed->completed, also when the
\* update is requested from a list that is out of date.
C4_StatusMonotonic ==
    [][\A a \in appointments : \A b \in appointments' :
          (a.id = b.id /\ a.status # b.status)
          => <<a.status, b.status>> \in ValidTransitions]_vars

\* C5: release on decline: right after an appointment's status becomes
\* declined, the slot that was booked for it is returned by the open-slot
\* listing again.
C5_ReleaseOnDecline ==
    [][\A a \in appointments : \A b \in appointments' :
          (a.id = b.id /\ a.status # "declined" /\ b.status = "declined"
              /\ \E s \in timeSlots : s.id = a.slotId /\ s.isBooked)
          => a.slotId \in OpenSlotIds(timeSlots')]_vars

\* C6: a booked slot is never deleted while a pending or confirmed appointment
\* references it: no step removes from the store a slot whose booked flag is
\* true and that such an appointment was made for.
C6_BookedSlotKept ==
    [][\A s \in timeSlots :
          (s.isBooked /\ \E a \in appointments :
                             a.slotId = s.id /\ a.status \in ActiveStatuses)
          => \E t \in timeSlots' : t.id = s.id]_vars

\* C7: only the doctor who owns an appointment changes its status: every step
\* that changes an appointment's status is a call made by appointment.doctorId.
C7_OnlyOwnerChangesStatus ==
    [][\A a \in appointments : \A b \in appointments' :
          (a.id = b.id /\ a.status # b.status)
          => lastCall'.caller = a.doctorId]_vars

\* C8: slot uniqueness: in every reachable state no two open slots have the
\* same (doctorId, date, time).
C8_OpenSlotsUnique ==
    \A s, t \in timeSlots :
        (~s.isBooked /\ ~t.isBooked /\ SameSlotKey(s, t)) => s.id = t.id

C10_BookingChecksSlot ==
    [][\A a \in appointments' \ appointments :
          a.slotId # NoId
          => \E s \in timeSlots : s.id = a.slotId /\ ~s.isBooked]_vars

\* C11: denormalised fields are frozen at creation: no step changes a field of
\* an existing appointment other than its status; a step that changes the
\* status of an appointment changes no other appointment and no slot; a step
\* that changes a doctor's user document changes no appointment.
C11_DenormalizedFieldsFrozen ==
    [][/\ \A a \in appointments : \A b \in appointments' :
             a.id = b.id => [b EXCEPT !.status = a.status] = a
       /\ \A a \in appointments : \A b \in appointments' :
             (a.id = b.id /\ a.status # b.status)
             => /\ timeSlots' = timeSlots
                /\ appointments' \ {b} = appointments \ {a}
       /\ users' # users => appointments' = appointments]_vars

\* an appointment whose status was updated keeps the specialty it was booked
\* with after the doctor's user document got another one
C11_Witness ==
    \E a \in appointments :
        /\ a.status # "pending"
        /\ a.doctorId \in Doctors
        /\ a.specialty # users[a.doctorId]

\* C12: ordering inside one booking: the slot's booked flag is set before the
\* appointment is created, so in every reachable state the slot an appointment
\* was booked for, while it is in the store, has its booked flag set.
C12_SlotBookedBeforeAppointment ==
    \A a \in appointments : \A s \in timeSlots :
        s.id = a.slotId => s.isBooked

\* C13: only the owning doctor removes a slot: every step that removes a slot
\* from the store is a call made by the account that is the slot's doctorId.
C13_OnlyOwnerRemovesSlot ==
    [][\A s \in timeSlots :
          (~\E t \in timeSlots' : t.id = s.id) => lastCall'.caller = s.doctorId]_vars

\* C14: publishing a slot with a date before the current date creates no
\* slot: no slot in the store has a date earlier than the current date.
C14_NoSlotInThePast ==
    \A s \in timeSlots : s.date >= today

\* the listing holds exactly the members of S, each once
ListsExactly(listing, S) ==
    Range(listing) = S /\ Len(listing) = Cardinality(S)

\* the listing is in ascending order of (date, time)
AscendingByDateTime(listing) ==
    \A i, j \in DOMAIN listing :
        i < j => \/ listing[i].date < listing[j].date
                 \/ listing[i].date = listing[j].date
                    /\ listing[i].time <= listing[j].time

\* C15: the open-slot listing returns exactly the stored slots that are not
\* booked (of the given doctor when one is given), each once, in ascending
\* order of (date, time): the remote queries and the local-storage listing.
C15_OpenSlotListing ==
    /\ ListsExactly(getAvailableTimeSlots(timeSlots), {s \in timeSlots : ~s.isBooked})
    /\ AscendingByDateTime(getAvailableTimeSlots(timeSlots))
    /\ \A d \in Doctors \cup SampleDoctors :
          /\ ListsExactly(getDoctorTimeSlots(timeSlots, d),
                          {s \in timeSlots : ~s.isBooked /\ s.doctorId = d})
          /\ AscendingByDateTime(getDoctorTimeSlots(timeSlots, d))
    /\ \A d \in Doctors \cup SampleDoctors \cup {NoDoctor} :
          /\ ListsExactly(tempGetAvailableSlots(tempTimeSlots, d),
                          {s \in Range(tempTimeSlots) :
                              ~s.isBooked /\ (d = NoDoctor \/ s.doctorId = d)})
          /\ AscendingByDateTime(tempGetAvailableSlots(tempTimeSlots, d))

\* the listing is in descending order of date, and of time within one date
DescendingByDateTime(listing) ==
    \A i, j \in DOMAIN listing :
        i < j => \/ listing[i].date > listing[j].date
                 \/ listing[i].date = listing[j].date
                    /\ listing[i].time >= listing[j].time

\* C16: the appointment listings by patient and by doctor return exactly the
\* appointments of that patient (doctor), in descending order of date, with
\* descending time among appointments of one date.
C16_AppointmentListing ==
    /\ \A p \in Patients \cup SamplePatients :
          /\ ListsExactly(getPatientAppointments(appointments, p),
                          {a \in appointments : a.patientId = p})
          /\ DescendingByDateTime(getPatientAppointments(appointments, p))
          /\ DescendingByDateTime(subscribeToPatientAppointments(appointments, p))
    /\ \A d \in Doctors \cup SampleDoctors :
          /\ ListsExactly(getDoctorAppointments(appointments, d),
                          {a \in appointments : a.doctorId = d})
          /\ DescendingByDateTime(getDoctorAppointments(appointments, d))
          /\ DescendingByDateTime(subscribeToDoctorAppointments(appointments, d))

\* C17: appointments are never deleted: an appointment id that is in the
\* remote store, or in the local-storage list, is still there after every step.
C17_AppointmentsNeverDeleted ==
    [][/\ \A a \in appointments : \E b \in appointments' : b.id = a.id
       /\ \A i \in DOMAIN tempAppointments :
             \E j \in DOMAIN tempAppointments' :
                 tempAppointments'[j].id = tempAppointments[i].id]_vars

\* C18: no store failure is silently swallowed: whenever the request of an
\* operation to the store failed, the operation ended by throwing to its caller
\* (an outcome that differs from a result such as null or the empty list).
C18_NoFailureSwallowed ==
    lastResult.failed => lastResult.threw

\* C19: role-based route protection: the content of a protected page is shown
\* only when loading is finished, a user is set and the user's role is the
\* route's required role; on a protected route, with loading finished, no user
\* means the router is sent to /login and a user of the other role means it is
\* sent to that user's own dashboard.
C19_RouteProtection ==
    /\ shown.shows \in PatientPaths \cup DoctorPaths
       => /\ ~loading
          /\ user # NoUser
          /\ role(user) = requiredRole(shown.shows)
    /\ (requiredRole(location) # "" /\ ~loading /\ user = NoUser)
       => shown = [shows |-> "nothing", navigate |-> "/login"]
    /\ (requiredRole(location) # "" /\ ~loading /\ user # NoUser
           /\ role(user) # requiredRole(location))
       => shown = [shows |-> "nothing",
                   navigate |-> IF user \in Patients THEN "/patient/dashboard"
                                ELSE "/doctor/dashboard"]

\* a signed-in doctor is at a patient route and is being sent to the doctor
\* dashboard
C19_Witness ==
    /\ user \in Doctors
    /\ ~loading
    /\ location \in PatientPaths
    /\ shown.navigate = "/doctor/dashboard"

\* the appointment with that id is in the store with that status
InStore(id, status) == \E a \in appointments : a.id = id /\ a.status = status

\* the list shows the appointment with that id with that status
Shows(list, id, status) ==
    \E i \in DOMAIN list : list[i].id = id /\ list[i].status = status

\* the appointment with that id is one of that account
Concerns(id, account) ==
    \E a \in appointments : a.id = id /\ (a.doctorId = account \/ a.patientId = account)

\* every list a dashboard is given holds appointments as they are in the store
\* at that moment: the statuses of an appointment are shown in the order written
ShownInOrderWritten ==
    [][/\ \A d \in Doctors :
             appointmentsView'[d] # appointmentsView[d]
             => Range(appointmentsView'[d]) \subseteq appointments'
       /\ \A p \in Patients :
             patientAppointments'[p] # patientAppointments[p]
             => Range(patientAppointments'[p]) \subseteq appointments']_vars

\* C20 (as stated): after an appointment is created or its status is changed,
\* the dashboard of its doctor and the dashboard of its patient each eventually
\* show the appointment with that status, and the statuses of an appointment
\* are shown in the order in which they were written.
C20_EveryStatusShown ==
    /\ \A id \in 1 .. MaxDocs : \A status \in Statuses :
          /\ \A d \in Doctors :
                (InStore(id, status) /\ Concerns(id, d))
                ~> Shows(appointmentsView[d], id, status)
          /\ \A p \in SoloPatients :
                (InStore(id, status) /\ Concerns(id, p))
                ~> Shows(patientAppointments[p], id, status)
    /\ ShownInOrderWritten

\* the list shows every appointment of the account with the status the store holds
ShowsLatest(list, account) ==
    \A a \in appointments :
        (a.doctorId = account \/ a.patientId = account) => Shows(list, a.id, a.status)

\* C20 (amended): after an appointment is created or its status is changed,
\* the dashboard of its doctor and the dashboard of its patient each eventually
\* show every appointment of their account with the status the store holds at
\* that moment (a status overwritten before its delivery may never be shown),
\* and the statuses of an appointment are shown in the order in which they
\* were written.
C20_LatestStatusShown ==
    /\ \A d \in Doctors : []<>ShowsLatest(appointmentsView[d], d)
    /\ \A p \in SoloPatients : []<>ShowsLatest(patientAppointments[p], p)
    /\ ShownInOrderWritten

\* the dashboards of the doctor and of the patient both show an appointment
\* with the status it was updated to
C20_Witness ==
    \E a \in appointments :
        /\ a.status # "pending"
        /\ a.doctorId \in Doctors /\ a.patientId \in SoloPatients
        /\ Shows(appointmentsView[a.doctorId], a.id, a.status)
        /\ Shows(patientAppointments[a.patientId], a.id, a.status)


\* C21: when a booking or a status update ends and its appointment write
\* succeeded, the page shows a success notification; a success notification is
\* shown only by a step that changed the store; and no notification step
\* removes an appointment or takes back a status.
C21_ChangeNotified ==
    [][/\ \A p \in Patients :
             (/\ booking[p].pc = "marking" /\ booking'[p].pc = "idle"
              /\ \E a \in appointments' : a.id = booking[p].apptId)
             => notification' = "success"
       /\ (\E a \in appointments : \E b \in appointments' :
               a.id = b.id /\ a.status # b.status)
          => notification' = "success"
       /\ (notification' = "success" /\ notification # "success")
          => storeVars' # storeVars
       /\ notification' # notification
          => {a.id : a \in appointments} \subseteq {a.id : a \in appointments'}]_vars


\* every appointment that a step adds to the store has status pending
EntersPending ==
    [][\A b \in appointments' :
          (~\E a \in appointments : a.id = b.id) => b.status = "pending"]_vars

\* C22: every appointment enters the store with status pending (from the
\* booking page and from the sample-data initialization alike), and a step
\* that makes an appointment confirmed finds it pending.
C22_PendingFirst ==
    /\ EntersPending
    /\ [][\A a \in appointments : \A b \in appointments' :
             (a.id = b.id /\ a.status # "confirmed" /\ b.status = "confirmed")
             => a.status = "pending"]_vars


\* the step in which the login call in flight ends
LoginEnds == call.op = "login" /\ call.pc = "reading" /\ call'.pc = "idle"

\* the step in which the register call in flight ends
RegisterEnds == call.op = "register" /\ call.pc = "writing" /\ call'.pc = "idle"

\* C23: when login has authenticated and the read of the remote user document
\* fails while the local list stores the user, login succeeds and sets the
\* hook's user to that user.
C23_LoginFallsBack ==
    [][(LoginEnds /\ returned'.outcome # "ok" /\ returned'.stored)
       => (returned'.ok /\ user' = returned'.uid)]_vars

\* C24: when the account is created and the remote write fails with
\* permission-denied or unavailable, the user is stored in the local list and
\* register succeeds with it; when the remote write fails with another error,
\* register fails, the error is set and neither tier stores the user.
C24_RegisterFallsBack ==
    [][RegisterEnds
       => /\ returned'.outcome \in {"permission-denied", "unavailable"}
             => /\ returned'.ok
                /\ call.uid \in StoredUids(tempUsers')
                /\ user' = call.uid
          /\ returned'.outcome \notin {"ok", "permission-denied", "unavailable"}
             => /\ ~returned'.ok
                /\ error' # ""
                /\ call.uid \notin DOMAIN userDocuments'
                /\ call.uid \notin StoredUids(tempUsers')]_vars

\* C25: when register fails after its account was created, the account is
\* deleted: no account of a failed register is left without a user document in
\* the remote store or the local list.
C25_RegisterCleansUp ==
    [][(RegisterEnds /\ ~returned'.ok)
       => \A a \in accounts' :
             a.uid = call.uid
             => (a.uid \in DOMAIN userDocuments' \/ a.uid \in StoredUids(tempUsers'))]_vars

\* C26: once register or login has succeeded, the hook's user stays the
\* returned user until logout or the next call, whatever the auth-state
\* callback of the same sign-in finds; and while a call is in flight, loading
\* is not false with user null.
C26_UserKeptAfterSignIn ==
    /\ [][(/\ returned.ok /\ user = returned.uid /\ currentUser = returned.uid
           /\ call.pc = "idle" /\ call'.pc = "idle" /\ currentUser' # NoUser)
          => user' = returned.uid]_vars
    /\ [](call.pc # "idle" => (loading \/ user # NoUser))


\* the calls awaited for the item with that id
InFlight(pending, id) == {k \in DOMAIN pending : pending[k] = id}

\* C27: in a doctor session, while a status update of an appointment (a
\* deletion of a slot) is awaited, the buttons of that appointment (slot) are
\* disabled and no second call for it is awaited, also when an action on another
\* item was started meanwhile; and with no call awaited the marker is clear.
C27_BusyItemsDisabled ==
    \A d \in Doctors :
        LET updated == [k \in DOMAIN pendingUpdates[d] |-> pendingUpdates[d][k].id]
        IN  /\ \A k \in DOMAIN updated :
                  /\ Disabled(updating[d], updated[k])
                  /\ Cardinality(InFlight(updated, updated[k])) = 1
            /\ \A k \in DOMAIN pendingDeletes[d] :
                  /\ Disabled(deleting[d], pendingDeletes[d][k])
                  /\ Cardinality(InFlight(pendingDeletes[d], pendingDeletes[d][k])) = 1
            /\ pendingUpdates[d] = <<>> => updating[d] = NoId
            /\ pendingDeletes[d] = <<>> => deleting[d] = NoId


\* no two stored users share a uid or an e-mail address
UniqueUsers(stored) ==
    \A i, j \in DOMAIN stored :
        (stored[i].uid = stored[j].uid \/ stored[i].email = stored[j].email) => i = j

\* the stored user list has a user with the uid or the e-mail address
UserExists(stored, uid, email) == uid \in StoredUids(stored) \/ email \in StoredEmails(stored)

\* what a call of tempCreateUser that does not throw leaves as the stored list
\* when the list is saved
UserAppended == Append(tempUsers, [uid |-> tempUserCall'.uid, email |-> tempUserCall'.email])

AppointmentReplaced ==
    [i \in DOMAIN tempAppointments |->
        IF i = findIndex(tempAppointments, tempAppointmentCall'.id)
        THEN Override(tempAppointments[i], tempAppointmentCall'.updates)
        ELSE tempAppointments[i]]

WrittenStatuses == {"pending", "confirmed", "declined"}

=============================================================================
